---------------------------- MODULE Spec2Model ----------------------------
(***************************************************************************)
(* Streaming-protocol client and presentation state machine of the         *)
(* analytics chat front end.                                               *)
(*                                                                         *)
(*   - the slide deck operations of App.tsx / PresentationSidebar.tsx      *)
(*     (specifications SpecDeckOps and SpecDeck);                          *)
(*   - the stream transport driver and its record framing, api.ts          *)
(*     chatApi.sendMessageStream (specification SpecCodec);                *)
(*   - the conversation store of hooks/useChat.ts (specification SpecChat);*)
(*   - the export of PresentationSidebar.tsx (SpecExport, SpecExportEdit)  *)
(*     and the "Add to Presentation" button of the charts (SpecAdd).       *)
(***************************************************************************)
EXTENDS Integers, Sequences, FiniteSets, TLC

VARIABLES
    \* ---- useChat.ts state shared with the sidebar
    currentPresentation,  \* useChat.ts:17   PresentationConfig | null
    \* ---- PresentationSidebar.tsx component state
    selectedSlide,        \* PresentationSidebar.tsx:160
    editingSlide,         \* PresentationSidebar.tsx:162
    \* ---- history of the deck (not program state)
    everIds,              \* ids of all slides that were ever in the current deck
    decksCreated,         \* number of decks created so far (stands for Date.now())
    edits,                \* number of editor field changes made so far
    \* ---- chatApi.sendMessageStream: one call of the transport driver
    streamPc,             \* "idle" | "reading" | "returned" | "threw"
    netData,              \* characters of the response body not yet read
    buffer,               \* api.ts:61   let buffer = ''
    pending,              \* lines of the running `for (const line of lines)`
    delivered,            \* events passed to onEvent so far, in call order
    activeHandlers,       \* onEvent invocations that have not returned yet
    streamResult,         \* the returned convId, or the thrown Error's message
    handlerThrew,         \* positions in `delivered` of the events whose callback threw
    \* ---- history of the stream (not program state)
    records,              \* the records the server wrote into the response body
    cuts,                 \* where chunk boundaries fell: "delimiter", "payload"
    \* ---- hooks/useChat.ts state
    messages,             \* useChat.ts:13
    conversationId,       \* useChat.ts:14
    isLoading,            \* useChat.ts:15
    error,                \* useChat.ts:16
    toolStatus,           \* useChat.ts:18
    \* ---- the calls of sendMessage and clearChat that are under way
    reqs,                 \* one record per sendMessage call, in call order
    clearPc,              \* "idle" | "deleting": clearChat awaiting its DELETE
    uuids,                \* number of uuidv4() identifiers handed out
    \* ---- history of the session (not program state)
    lastEvent,            \* the event the callback handled last
    eventsHandled,        \* number of callback invocations so far
    clears,               \* number of clearChat calls so far
    deleteOutcome,        \* how the DELETE of the last clearChat settled
    \* ---- PresentationSidebar state used by the export
    isExporting,          \* PresentationSidebar.tsx:161
    chartsToCapture,      \* PresentationSidebar.tsx:163, the mounted off-screen charts
    mounts,               \* number of sidebar instances unmounted so far
    \* ---- the calls of handleExport, in call order
    exports,
    \* ---- the "Add to Presentation" clicks (ChartRenderer handleCapture), in click order
    captures

deckVars == <<currentPresentation, selectedSlide, editingSlide, everIds, decksCreated, edits,
              isExporting, chartsToCapture, mounts>>
codecVars == <<streamPc, netData, buffer, pending, delivered, activeHandlers,
               streamResult, handlerThrew, records, cuts>>

chatVars == <<messages, conversationId, isLoading, error, toolStatus, reqs, clearPc,
              uuids, lastEvent, eventsHandled, clears, deleteOutcome>>
exportState == <<isExporting, chartsToCapture, mounts>>
sidebarVars == <<selectedSlide, editingSlide, everIds, decksCreated, edits, exportState>>

nonDeckVars == <<codecVars, chatVars, exports, captures>>
nonCodecVars == <<deckVars, chatVars, exports, captures>>
nonExportVars == <<currentPresentation, selectedSlide, editingSlide, everIds,
                   decksCreated, edits, codecVars, chatVars, captures>>
\* currentPresentation belongs to useChat
nonChatVars == <<sidebarVars, codecVars, exports, captures>>

(***************************************************************************)
(* Bounds of the model.                                                    *)
(***************************************************************************)
MaxSlides == 3
MaxDecks == 1
MaxEdits == 1
MaxRecords == 3
MaxRequests == 2
MaxEvents == 3
MaxClears == 1
MaxExports == 2
MaxCaptures == 2

(***************************************************************************)
(* JavaScript values.                                                      *)
(***************************************************************************)
\* `undefined` / an absent optional field of string type
Undefined == "undefined"
\* `null` of string type (useState<string | null>(null))
Null == "null"
\* an absent object-valued field or a null object
NullObject == [type |-> "null"]

\* `slide-${n}`
SlideId(n) == <<"slide", n>>
\* the id of an object that has no id property
UndefinedId == <<"undefined">>
\* `pres-${Date.now()}`
PresentationId(t) == <<"pres", t>>

(***************************************************************************)
(* Inputs: charts of assistant messages and captured images.               *)
(***************************************************************************)
Charts ==
    { [type |-> "chart", title |-> "Revenue"],
      [type |-> "chart", title |-> "Costs"] }

\* canvas.toDataURL('image/png').split(',')[1] : the base64 payload of a capture
CapturedImage == "iVBORw0KGgo"
\* chartImage?: string  -- absent, or the payload of a capture
ChartImages == {Undefined, CapturedImage}

\* slide ids a caller may pass, present in the deck or not
SlideIdArgs == {SlideId(n) : n \in 1..(MaxSlides + 1)}

Directions == {"up", "down"}

(***************************************************************************)
(* Arrays: JavaScript arrays are 0-based, sequences are 1-based.           *)
(***************************************************************************)
\* the object left by  { ...undefined, order: index + 1 }
OrderOnlySlide(order) ==
    [ id |-> UndefinedId, order |-> order, title |-> Undefined,
      contentType |-> Undefined, content |-> Undefined, notes |-> Undefined,
      chartConfig |-> NullObject, chartImage |-> Undefined ]

\* the array element `undefined` (spreading it yields no properties)
UndefinedSlide == OrderOnlySlide(0)

\* arr[i] : reading outside 0..length-1 yields undefined
At(arr, i) == IF i >= 0 /\ i < Len(arr) THEN arr[i + 1] ELSE UndefinedSlide

\* arr[i] = v : a negative index sets a property, not an element
AssignAt(arr, i, v) ==
    IF i >= 0 /\ i < Len(arr) THEN [arr EXCEPT ![i + 1] = v]
    ELSE IF i = Len(arr) THEN Append(arr, v)
    ELSE arr

\* Array.prototype.findIndex(s => s.id === slideId): first match, or -1
FindIndex(slides, slideId) ==
    IF \E i \in 1..Len(slides) : slides[i].id = slideId
    THEN (CHOOSE i \in 1..Len(slides) :
              /\ slides[i].id = slideId
              /\ \A j \in 1..(i - 1) : slides[j].id # slideId) - 1
    ELSE -1

\* Array.prototype.filter(s => s.id !== slideId)
RECURSIVE FilterOut(_, _)
FilterOut(slides, slideId) ==
    IF slides = <<>> THEN <<>>
    ELSE IF Head(slides).id # slideId
         THEN <<Head(slides)>> \o FilterOut(Tail(slides), slideId)
         ELSE FilterOut(Tail(slides), slideId)

\* .map((s, index) => ({ ...s, order: index + 1 }))
Renumber(slides) ==
    [i \in 1..Len(slides) |-> [slides[i] EXCEPT !.order = i]]

(***************************************************************************)
(* Deck operations.                                                        *)
(***************************************************************************)
HasDeck(p) == p.type = "presentation"

\* PresentationConfig.metadata?: absent, or { createdAt, slideCount }
NoMetadata == [present |-> FALSE, slideCount |-> 0]
Metadata(slideCount) == [present |-> TRUE, slideCount |-> slideCount]

\* chartImage || ''
NormalizedImage(chartImage) == IF chartImage = Undefined THEN "" ELSE chartImage

\* App handleAddChartToPresentation, else branch: a new single-slide deck
createFromChart(chart, chartImage, now) ==
    [ type |-> "presentation",
      presentationId |-> PresentationId(now),
      title |-> "Analytics Report",
      metadata |-> NoMetadata,
      slides |-> << [ id |-> SlideId(1), order |-> 1, title |-> chart.title,
                      contentType |-> "chart", content |-> "", notes |-> Undefined,
                      chartConfig |-> chart,
                      chartImage |-> NormalizedImage(chartImage) ] >> ]

\* an appendChart that numbers the new slide by the old length
appendChart_IdFromLength(deck, chart, chartImage) ==
    [ deck EXCEPT !.slides =
        Append(deck.slides,
               [ id |-> SlideId(Len(deck.slides)),
                 order |-> Len(deck.slides) + 1,
                 title |-> chart.title,
                 contentType |-> "chart", content |-> "", notes |-> Undefined,
                 chartConfig |-> chart,
                 chartImage |-> NormalizedImage(chartImage) ]) ]

\* App handleAddChartToPresentation, then branch: one more slide
appendChart(deck, chart, chartImage) ==
    [ deck EXCEPT !.slides =
        Append(deck.slides,
               [ id |-> SlideId(Len(deck.slides) + 1),
                 order |-> Len(deck.slides) + 1,
                 title |-> chart.title,
                 contentType |-> "chart", content |-> "", notes |-> Undefined,
                 chartConfig |-> chart,
                 chartImage |-> NormalizedImage(chartImage) ]) ]

\* a deletion that forgets to renumber
deleteSlide_NoRenumber(deck, slideId) ==
    [ deck EXCEPT !.slides = FilterOut(deck.slides, slideId) ]

\* PresentationSidebar handleDeleteSlide
deleteSlide(deck, slideId) ==
    [ deck EXCEPT !.slides = Renumber(FilterOut(deck.slides, slideId)) ]

\* PresentationSidebar handleMoveSlide
moveSlide(deck, slideId, direction) ==
    LET slides == deck.slides
        slideIndex == FindIndex(slides, slideId)
    IN  IF \/ (direction = "up" /\ slideIndex = 0)
           \/ (direction = "down" /\ slideIndex = Len(slides) - 1)
        THEN deck
        ELSE LET targetIndex == IF direction = "up" THEN slideIndex - 1
                                ELSE slideIndex + 1
                 \* the right-hand side is read before either element is written
                 right == <<At(slides, targetIndex), At(slides, slideIndex)>>
                 step1 == AssignAt(slides, slideIndex, right[1])
                 newSlides == AssignAt(step1, targetIndex, right[2])
             IN  [ deck EXCEPT !.slides = Renumber(newSlides) ]

\* PresentationSidebar handleSlideUpdate: the editor's copy replaces the slide
updateSlide(deck, editing) ==
    [ deck EXCEPT !.slides =
        [i \in 1..Len(deck.slides) |->
            IF deck.slides[i].id = editing.id THEN editing ELSE deck.slides[i]] ]

IdsOf(slides) == {slides[i].id : i \in 1..Len(slides)}

(***************************************************************************)
(* Deck actions.                                                           *)
(***************************************************************************)
\* selectedSlide === null
NullId == <<"null">>

ContentTypes == {"text", "bullets", "chart", "mixed"}
EditTitles == {"Q3 review"}
EditNotes == {"Mention the forecast"}

SetDeck(deck) ==
    /\ currentPresentation' = deck
    /\ everIds' = everIds \cup IdsOf(deck.slides)

\* App handleAddChartToPresentation(chart, chartImage?)
AddChart(chart, chartImage) ==
    /\ UNCHANGED nonDeckVars
    /\ IF HasDeck(currentPresentation)
       THEN /\ Len(currentPresentation.slides) < MaxSlides
            /\ SetDeck(appendChart(currentPresentation, chart, chartImage))
            /\ UNCHANGED decksCreated
       ELSE /\ decksCreated < MaxDecks
            /\ currentPresentation' = createFromChart(chart, chartImage, decksCreated + 1)
            /\ everIds' = {SlideId(1)}
            /\ decksCreated' = decksCreated + 1
    /\ UNCHANGED <<selectedSlide, editingSlide, edits>>
    /\ UNCHANGED exportState

\* PresentationSidebar handleDeleteSlide(slideId)
DeleteSlide(slideId) ==
    /\ UNCHANGED nonDeckVars
    /\ HasDeck(currentPresentation)
    /\ SetDeck(deleteSlide(currentPresentation, slideId))
    /\ UNCHANGED <<selectedSlide, editingSlide, decksCreated, edits>>
    /\ UNCHANGED exportState

\* PresentationSidebar handleMoveSlide(slideId, direction)
MoveSlide(slideId, direction) ==
    /\ UNCHANGED nonDeckVars
    /\ HasDeck(currentPresentation)
    /\ SetDeck(moveSlide(currentPresentation, slideId, direction))
    /\ UNCHANGED <<selectedSlide, editingSlide, decksCreated, edits>>
    /\ UNCHANGED exportState

\* PresentationSidebar handleSlideClick(slideId)
SlideClick(slideId) ==
    /\ UNCHANGED nonDeckVars
    /\ HasDeck(currentPresentation)
    /\ selectedSlide' = IF slideId = selectedSlide THEN NullId ELSE slideId
    /\ LET idx == FindIndex(currentPresentation.slides, slideId)
       IN  editingSlide' = IF idx >= 0 THEN currentPresentation.slides[idx + 1]
                           ELSE editingSlide
    /\ UNCHANGED <<currentPresentation, everIds, decksCreated, edits>>
    /\ UNCHANGED exportState

\* the slide editor is rendered under the selected slide only
EditorOpen ==
    /\ HasDeck(currentPresentation)
    /\ editingSlide # NullObject
    /\ selectedSlide \in IdsOf(currentPresentation.slides)

\* the editor's input fields: setEditingSlide({ ...editingSlide, field })
EditField ==
    /\ UNCHANGED nonDeckVars
    /\ EditorOpen
    /\ \/ \E t \in EditTitles : editingSlide' = [editingSlide EXCEPT !.title = t]
       \/ \E c \in ContentTypes : editingSlide' = [editingSlide EXCEPT !.contentType = c]
       \/ \E n \in EditNotes : editingSlide' = [editingSlide EXCEPT !.notes = n]
    /\ editingSlide' # editingSlide
    /\ edits < MaxEdits
    /\ edits' = edits + 1
    /\ UNCHANGED <<currentPresentation, selectedSlide, everIds, decksCreated>>
    /\ UNCHANGED exportState

\* PresentationSidebar handleSlideUpdate ("Save Changes")
SlideUpdate ==
    /\ UNCHANGED nonDeckVars
    /\ EditorOpen
    /\ SetDeck(updateSlide(currentPresentation, editingSlide))
    /\ selectedSlide' = NullId
    /\ editingSlide' = NullObject
    /\ UNCHANGED <<decksCreated, edits>>
    /\ UNCHANGED exportState

\* the editor's Cancel button
CancelEdit ==
    /\ UNCHANGED nonDeckVars
    /\ EditorOpen
    /\ selectedSlide' = NullId
    /\ editingSlide' = NullObject
    /\ UNCHANGED <<currentPresentation, everIds, decksCreated, edits>>
    /\ UNCHANGED exportState

\* App handleCloseSidebar: the sidebar unmounts and loses its state
CloseSidebar ==
    /\ UNCHANGED nonDeckVars
    /\ HasDeck(currentPresentation)
    /\ currentPresentation' = NullObject
    /\ selectedSlide' = NullId
    /\ editingSlide' = NullObject
    /\ everIds' = {}
    \* the state of the unmounted instance is gone
    /\ isExporting' = FALSE
    /\ chartsToCapture' = <<>>
    /\ mounts' = mounts + 1
    /\ UNCHANGED <<decksCreated, edits>>

InitDeck ==
    /\ currentPresentation = NullObject
    /\ selectedSlide = NullId
    /\ editingSlide = NullObject
    /\ everIds = {}
    /\ decksCreated = 0
    /\ edits = 0
    /\ isExporting = FALSE
    /\ chartsToCapture = <<>>
    /\ mounts = 0

(***************************************************************************)
(* Event envelope codec and stream transport driver:                       *)
(* chatApi.sendMessageStream.  Text is a sequence of one-character         *)
(* strings; the body is ASCII, so TextDecoder.decode maps bytes to         *)
(* characters one to one.                                                  *)
(***************************************************************************)
NL == "\n"
\* the record delimiter of buffer.split('\n\n')
Delimiter == <<NL, NL>>
\* the prefix of line.startsWith('data: ')
Marker == <<"d", "a", "t", "a", ":", " ">>

\* serialized event objects: `{` body `}` with one character standing for the body
JsonBodies == {"1", "2"}
JsonText(body) == <<"{", body, "}">>

\* what the server writes into the body
GoodRecord(body) == Marker \o JsonText(body) \o Delimiter
\* a record whose payload is cut short
MalformedRecord == Marker \o <<"{", "1">> \o Delimiter
\* a comment record: no marker
CommentRecord == <<":">> \o Delimiter
\* a complete record that lacks its delimiter
UnterminatedRecord == Marker \o JsonText("2")
\* a stray line break
StrayNewline == <<NL>>

FramedRecords ==
    {GoodRecord(b) : b \in JsonBodies} \cup {MalformedRecord, CommentRecord}
StreamPieces == FramedRecords \cup {UnterminatedRecord, StrayNewline}

RECURSIVE Flatten(_)
Flatten(seqs) ==
    IF seqs = <<>> THEN <<>> ELSE Head(seqs) \o Flatten(Tail(seqs))

PieceSeqs(S) == UNION {[1..n -> S] : n \in 0..MaxRecords}

\* String.prototype.startsWith
StartsWith(text, prefix) ==
    /\ Len(text) >= Len(prefix)
    /\ SubSeq(text, 1, Len(prefix)) = prefix

\* String.prototype.slice(n)
Slice(text, n) == SubSeq(text, n + 1, Len(text))

\* String.prototype.indexOf('\n\n', from), 1-based; 0 when there is none
RECURSIVE IndexOfDelimiter(_, _)
IndexOfDelimiter(text, from) ==
    IF from >= Len(text) THEN 0
    ELSE IF text[from] = NL /\ text[from + 1] = NL THEN from
    ELSE IndexOfDelimiter(text, from + 1)

\* String.prototype.split('\n\n'): cut at each delimiter found left to right
RECURSIVE SplitLines(_)
SplitLines(text) ==
    LET i == IndexOfDelimiter(text, 1)
    IN  IF i = 0 THEN <<text>>
        ELSE <<SubSeq(text, 1, i - 1)>> \o SplitLines(SubSeq(text, i + 2, Len(text)))

\* JSON.parse: white space around the value is skipped; anything but one
\* serialized event object is a SyntaxError
JsonWhitespace == {" ", NL}
RECURSIVE TrimLeft(_)
TrimLeft(text) ==
    IF text # <<>> /\ Head(text) \in JsonWhitespace THEN TrimLeft(Tail(text)) ELSE text
RECURSIVE TrimRight(_)
TrimRight(text) ==
    IF text # <<>> /\ text[Len(text)] \in JsonWhitespace
    THEN TrimRight(SubSeq(text, 1, Len(text) - 1)) ELSE text

JsonParse(text) ==
    LET t == TrimRight(TrimLeft(text))
    IN  IF Len(t) = 3 /\ t[1] = "{" /\ t[3] = "}" /\ t[2] \in JsonBodies
        THEN [ok |-> TRUE, value |-> t[2]]
        ELSE [ok |-> FALSE, value |-> Undefined]

\* buffer = lines.pop() || '' with the buffer forgotten instead
NextBuffer_Dropped(lines) == <<>>

\* buffer = lines.pop() || ''
NextBuffer(lines) == lines[Len(lines)]

\* what is left in `lines` after lines.pop()
CompleteLines(lines) == SubSeq(lines, 1, Len(lines) - 1)

\* `catch { }` around JSON.parse and onEvent removed
ParseErrorIgnored_Rethrown == FALSE

\* api.ts:76  catch { // Ignore parse errors }
ParseErrorIgnored == TRUE

\* the next line is dispatched while the previous handler is still running
HandlerReturned_NotAwaited == TRUE

\* onEvent(event) is a plain call: the loop goes on when it has returned
HandlerReturned == activeHandlers = 0

\* response.headers.get('X-Conversation-Id') || conversationId || ''
ConvIdOf(header, conversationIdArg) ==
    IF header # Null /\ header # "" THEN header
    ELSE IF conversationIdArg # Undefined /\ conversationIdArg # "" THEN conversationIdArg
    ELSE ""

HttpErrorMessage(status) ==
    IF status = 500 THEN "HTTP error! status: 500" ELSE "HTTP error! status: 404"

\* the responses fetch may resolve to, and its rejection
Responses ==
    { [kind |-> "ok", status |-> 200, header |-> h] : h \in {Null, "c1"} }
    \cup { [kind |-> "no_body", status |-> 200, header |-> Null] }
    \cup { [kind |-> "http_error", status |-> st, header |-> Null] : st \in {404, 500} }
    \cup { [kind |-> "fetch_rejected", status |-> 0, header |-> Null] }

ConversationIdArgs == {Undefined, "c0"}

InitCodec ==
    /\ streamPc = "idle"
    /\ netData = <<>>
    /\ buffer = <<>>
    /\ pending = <<>>
    /\ delivered = <<>>
    /\ activeHandlers = 0
    /\ streamResult = Null
    /\ handlerThrew = {}
    /\ records = <<>>
    /\ cuts = {}

\* api.ts:38-61: the request is sent and the response to it arrives
Respond(response, conversationIdArg, recs) ==
    /\ records' = recs
    /\ CASE response.kind = "fetch_rejected" ->
              /\ streamPc' = "threw"
              /\ streamResult' = "Failed to fetch"
              /\ netData' = <<>>
         [] response.kind = "http_error" ->
              /\ streamPc' = "threw"
              /\ streamResult' = HttpErrorMessage(response.status)
              /\ netData' = <<>>
         [] response.kind = "no_body" ->
              /\ streamPc' = "threw"
              /\ streamResult' = "No response body"
              /\ netData' = <<>>
         [] OTHER ->
              /\ streamPc' = "reading"
              /\ streamResult' = ConvIdOf(response.header, conversationIdArg)
              /\ netData' = Flatten(recs)

Fetch ==
    /\ streamPc = "idle"
    /\ \E response \in Responses, conversationIdArg \in ConversationIdArgs,
          recs \in PieceSeqs(StreamPieces) : Respond(response, conversationIdArg, recs)
    /\ UNCHANGED <<buffer, pending, delivered, activeHandlers, handlerThrew, cuts>>
    /\ UNCHANGED nonCodecVars

\* what a chunk boundary after the first n unread characters cuts through
CutKinds(data, n) ==
    IF n >= Len(data) THEN {}
    ELSE (IF data[n] = NL /\ data[n + 1] = NL THEN {"delimiter"} ELSE {})
         \cup (IF data[n] = "{" THEN {"payload"} ELSE {})

LoopIdle == streamPc = "reading" /\ pending = <<>> /\ activeHandlers = 0

\* api.ts:64-69: reader.read() yields the next n characters
ReadChunk(n) ==
    /\ UNCHANGED nonCodecVars
    /\ LoopIdle
    /\ n \in 1..Len(netData)
    /\ LET lines == SplitLines(buffer \o SubSeq(netData, 1, n))
       IN  /\ buffer' = NextBuffer(lines)
           /\ pending' = CompleteLines(lines)
    /\ netData' = SubSeq(netData, n + 1, Len(netData))
    /\ cuts' = cuts \cup CutKinds(netData, n)
    /\ UNCHANGED <<streamPc, delivered, activeHandlers, streamResult, handlerThrew, records>>

\* api.ts:71-80: one iteration of the for loop
DispatchLine ==
    /\ UNCHANGED nonCodecVars
    /\ streamPc = "reading"
    /\ pending # <<>>
    /\ HandlerReturned
    /\ pending' = Tail(pending)
    /\ LET line == Head(pending)
           parsed == JsonParse(Slice(line, 6))
       IN  IF StartsWith(line, Marker)
           THEN IF parsed.ok
                THEN /\ delivered' = Append(delivered, parsed.value)
                     /\ activeHandlers' = activeHandlers + 1
                     /\ UNCHANGED <<streamPc, streamResult>>
                ELSE /\ UNCHANGED <<delivered, activeHandlers>>
                     /\ IF ParseErrorIgnored
                        THEN UNCHANGED <<streamPc, streamResult>>
                        ELSE /\ streamPc' = "threw"
                             /\ streamResult' = "SyntaxError"
           ELSE UNCHANGED <<delivered, activeHandlers, streamPc, streamResult>>
    /\ UNCHANGED <<netData, buffer, handlerThrew, records, cuts>>

\* the events one pass of the for loop hands to onEvent
RECURSIVE DecodeLines(_)
DecodeLines(lines) ==
    IF lines = <<>> THEN <<>>
    ELSE LET line == Head(lines)
             parsed == JsonParse(Slice(line, 6))
         IN  (IF StartsWith(line, Marker) /\ parsed.ok THEN <<parsed.value>> ELSE <<>>)
             \o DecodeLines(Tail(lines))

\* a driver that calls onEvent where the try block does not reach
HandlerErrorCaught_Outside == FALSE

\* api.ts:73-78: onEvent(event) is called inside the try block of JSON.parse
HandlerErrorCaught == TRUE

\* a driver that decodes what is left in the buffer when the body ends
FlushedAtEnd_Remainder(text) == IF text = <<>> THEN <<>> ELSE <<text>>

\* api.ts:65, 83: `if (done) break;` then `return convId`: the buffer is not
\* looked at again, no line of it is dispatched
FlushedAtEnd(text) == <<>>

\* the callback throws (reading `event.type` of a `null` event, for one)
HandlerThrow ==
    /\ UNCHANGED nonCodecVars
    /\ activeHandlers > 0
    /\ activeHandlers' = activeHandlers - 1
    /\ handlerThrew' = handlerThrew \cup {Len(delivered)}
    /\ IF HandlerErrorCaught
       THEN UNCHANGED <<streamPc, streamResult>>
       ELSE /\ streamPc' = "threw"
            /\ streamResult' = "TypeError"
    /\ UNCHANGED <<netData, buffer, pending, delivered, records, cuts>>

\* the callback returns
HandlerReturn ==
    /\ UNCHANGED nonCodecVars
    /\ activeHandlers > 0
    /\ activeHandlers' = activeHandlers - 1
    /\ UNCHANGED <<streamPc, netData, buffer, pending, delivered, streamResult,
                   handlerThrew, records, cuts>>

\* api.ts:64-65, 83: reader.read() reports done; convId is returned
ReadDone ==
    /\ UNCHANGED nonCodecVars
    /\ LoopIdle
    /\ netData = <<>>
    /\ streamPc' = "returned"
    /\ delivered' = delivered \o DecodeLines(FlushedAtEnd(buffer))
    /\ UNCHANGED <<netData, buffer, pending, activeHandlers, streamResult,
                   handlerThrew, records, cuts>>

\* api.ts:64: reader.read() rejects (the connection broke)
ReadFail ==
    /\ UNCHANGED nonCodecVars
    /\ LoopIdle
    /\ streamPc' = "threw"
    /\ streamResult' = "network error"
    /\ UNCHANGED <<netData, buffer, pending, delivered, activeHandlers, handlerThrew,
                   records, cuts>>

NextCodec ==
    \/ Fetch
    \/ \E n \in 1..Len(netData) : ReadChunk(n)
    \/ DispatchLine
    \/ HandlerReturn
    \/ HandlerThrow
    \/ ReadDone
    \/ ReadFail

(***************************************************************************)
(* Conversation store: hooks/useChat.ts.                                   *)
(***************************************************************************)
\* an optional array field: absent (undefined) or an array
AbsentList == [present |-> FALSE, items |-> <<>>]
List(items) == [present |-> TRUE, items |-> items]

\* { isActive: false, currentTool: null, toolHistory: [] }
ToolStatusReset == [isActive |-> FALSE, currentTool |-> Null, toolHistory |-> <<>>]

\* x || fallback for strings: undefined, null and '' are falsy
OrElse(x, fallback) == IF x \in {Undefined, Null, ""} THEN fallback ELSE x

\* decks the agent sends
ServerDeck(n) ==
    [ type |-> "presentation",
      presentationId |-> PresentationId(0 - n),
      title |-> "Sales review",
      metadata |-> Metadata(1),
      slides |-> << [ id |-> SlideId(1), order |-> 1, title |-> "Summary",
                      contentType |-> "text", content |-> "Sales grew",
                      notes |-> Undefined, chartConfig |-> NullObject,
                      chartImage |-> Undefined ] >> ]

ToolStartEvents ==
    { [type |-> "tool_start", tool |-> t] :
        t \in {"execute_sql_query", "generate_chart", Undefined} }
ToolEndEvents == { [type |-> "tool_end"] }
PresentationEvents ==
    { [type |-> "presentation", presentation |-> p] : p \in {ServerDeck(1), NullObject} }
IgnoredEvents == { [type |-> "presentation_update"] }
FinalEvents ==
    { [ type |-> "final", conversation_id |-> "c1", response |-> "Total sales: $1000",
        charts |-> List(<<>>), presentations |-> List(<<>>),
        suggestions |-> List(<<"Show by region">>) ],
      [ type |-> "final", conversation_id |-> "c2", response |-> "",
        charts |-> List(<<[type |-> "chart", title |-> "Revenue"]>>),
        presentations |-> List(<<ServerDeck(2)>>),
        suggestions |-> List(<<>>) ],
      [ type |-> "final", conversation_id |-> Undefined, response |-> Undefined,
        charts |-> AbsentList, presentations |-> AbsentList,
        suggestions |-> AbsentList ] }
ErrorEvents ==
    { [type |-> "error", message |-> m] : m \in {"Agent failed", Undefined} }

StreamEvents ==
    ToolStartEvents \cup ToolEndEvents \cup PresentationEvents \cup IgnoredEvents
    \cup FinalEvents \cup ErrorEvents

NoEvent == [type |-> "none"]

\* the stream of the tool-then-answer scenario
ScenarioStream ==
    << [type |-> "tool_start", tool |-> "execute_sql_query"],
       [type |-> "tool_end"],
       [ type |-> "final", conversation_id |-> "c1", response |-> "Total sales: $1000",
         charts |-> List(<<>>), presentations |-> List(<<>>),
         suggestions |-> List(<<"Show by region">>) ] >>
NoResponse == [kind |-> "none", status |-> 0, header |-> Null]

\* the messages of the errors reader.read() rejects with
ReadErrorMessages == {"network error"}

\* what the user types, and the starter suggestion of the empty chat
TypedTexts == {"What were the total sales?"}
StarterSuggestions == {"Show me a summary of the database"}

\* an assistant message that loses the event's suggestions
AssistantMessage_NoSuggestions(event, id) ==
    [ id |-> id, role |-> "assistant", content |-> OrElse(event.response, ""),
      charts |-> event.charts, presentations |-> event.presentations,
      suggestions |-> AbsentList ]

\* useChat.ts:68-76
AssistantMessage(event, id) ==
    [ id |-> id, role |-> "assistant", content |-> OrElse(event.response, ""),
      charts |-> event.charts, presentations |-> event.presentations,
      suggestions |-> event.suggestions ]

\* a log that takes the new message at its head
AppendMessage_Prepended(prev, message) == <<message>> \o prev

\* useChat.ts:36, 78: setMessages(prev => [...prev, message])
AppendMessage(prev, message) == Append(prev, message)

\* a tracker that keeps only the tool that started last
ToolStart_HistoryReplaced(prev, tool) ==
    [ isActive |-> TRUE, currentTool |-> OrElse(tool, Null),
      toolHistory |-> <<OrElse(tool, "")>> ]

\* useChat.ts:45-49
ToolStart(prev, tool) ==
    [ isActive |-> TRUE, currentTool |-> OrElse(tool, Null),
      toolHistory |-> Append(prev.toolHistory, OrElse(tool, "")) ]

\* a tool_end that also empties the history
ToolEnd_HistoryCleared(prev) == ToolStatusReset

\* useChat.ts:53-57
ToolEnd(prev) == [prev EXCEPT !.isActive = FALSE, !.currentTool = Null]

\* an error case that drops the message of the event
ErrorText_Generic(event) == "An error occurred"

\* useChat.ts:90
ErrorText(event) == OrElse(event.message, "An error occurred")

\* a finally that leaves the loading flag as it is
LoadingAfterExchange_Kept == isLoading

\* useChat.ts:102: setIsLoading(false)
LoadingAfterExchange == FALSE

\* a sendMessage that leaves the error of the previous exchange
ErrorAtStart_Kept == error

\* useChat.ts:26: setError(null)
ErrorAtStart == Null

\* a final case that does not look at the presentation list
FinalPresentation_Ignored(event, current) == current

\* useChat.ts:80-82: the first entry of a non-empty list becomes current
FinalPresentation(event, current) ==
    IF event.presentations.present /\ Len(event.presentations.items) > 0
    THEN event.presentations.items[1]
    ELSE current

\* useChat.ts:29-34
UserMessage(content, id) ==
    [ id |-> id, role |-> "user", content |-> content,
      charts |-> AbsentList, presentations |-> AbsentList, suggestions |-> AbsentList ]

InFlight(r) == reqs[r].pc # "done"
AnyInFlight == \E r \in 1..Len(reqs) : InFlight(r)

\* every call under way is marked as no longer being alone
Disturb(rs) == [r \in 1..Len(rs) |-> IF rs[r].pc # "done" THEN [rs[r] EXCEPT !.alone = FALSE]
                                      ELSE rs[r]]

InitChat ==
    /\ messages = <<>>
    /\ conversationId = Null
    /\ isLoading = FALSE
    /\ error = Null
    /\ toolStatus = ToolStatusReset
    /\ reqs = <<>>
    /\ clearPc = "idle"
    /\ uuids = 0
    /\ lastEvent = NoEvent
    /\ eventsHandled = 0
    /\ clears = 0
    /\ deleteOutcome = "none"

\* useChat.ts:24-47: sendMessage(content) up to the first await
StartExchange(content) ==
    /\ UNCHANGED nonChatVars
    /\ Len(reqs) < MaxRequests
    /\ isLoading' = TRUE
    /\ error' = ErrorAtStart
    /\ toolStatus' = ToolStatusReset
    /\ messages' = AppendMessage(messages, UserMessage(content, uuids + 1))
    /\ uuids' = uuids + 1
    /\ reqs' = Append(Disturb(reqs),
                      [ pc |-> "fetching",
                        \* the conversationId this sendMessage closure was created with
                        conversationId |-> conversationId,
                        newConvId |-> "",
                        response |-> NoResponse,
                        calls |-> 0,
                        ending |-> "none",
                        sawError |-> FALSE,
                        alone |-> ~AnyInFlight /\ clearPc = "idle",
                        \* the callback of this call has handled a final event
                        sawFinal |-> FALSE,
                        \* the call has handled this many events, and they are
                        \* the first events of ScenarioStream, in its order
                        scenario |-> 0,
                        \* a clearChat reset the store while this call was under way
                        cleared |-> FALSE,
                        \* id of the user message of this call
                        userId |-> uuids + 1 ])
    /\ UNCHANGED <<conversationId, currentPresentation, clearPc, lastEvent,
                   eventsHandled, clears, deleteOutcome>>

\* ChatInput handleSubmit: the input is disabled while loading
SubmitMessage ==
    /\ ~isLoading
    /\ \E content \in TypedTexts : StartExchange(content)

\* the suggestion buttons of the messages and of the empty chat
VisibleSuggestions ==
    IF messages = <<>> THEN StarterSuggestions
    ELSE UNION { {messages[i].suggestions.items[j] :
                     j \in 1..Len(messages[i].suggestions.items)} :
                 i \in 1..Len(messages) }

\* useChat.ts:107-110 handleSuggestion
ClickSuggestion ==
    \E suggestion \in VisibleSuggestions : StartExchange(suggestion)

\* the Error sendMessageStream throws for a response, or Null when it reads the body
\* with the status check left out
ResponseError_NoStatusCheck(response) ==
    CASE response.kind = "fetch_rejected" -> "Failed to fetch"
      [] response.kind = "no_body" -> "No response body"
      [] OTHER -> Null

\* api.ts:38-59
ResponseError(response) ==
    CASE response.kind = "fetch_rejected" -> "Failed to fetch"
      [] response.kind = "http_error" -> HttpErrorMessage(response.status)
      [] response.kind = "no_body" -> "No response body"
      [] OTHER -> Null

\* catch and finally of sendMessage without the reset of the tool tracker
Throw_NoReset(r, req, message) ==
    /\ error' = message
    /\ isLoading' = LoadingAfterExchange
    /\ UNCHANGED toolStatus
    /\ reqs' = [reqs EXCEPT ![r] = [req EXCEPT !.pc = "done", !.ending = "threw"]]

\* useChat.ts:99-104: catch and finally of sendMessage, req being request r
\* as it stands when sendMessageStream throws
Throw(r, req, message) ==
    /\ error' = message
    /\ isLoading' = LoadingAfterExchange
    /\ toolStatus' = ToolStatusReset
    /\ reqs' = [reqs EXCEPT ![r] = [req EXCEPT !.pc = "done", !.ending = "threw"]]

\* api.ts:38-59: the response of request r arrives (or fetch rejects)
ReceiveResponse(r) ==
    /\ UNCHANGED nonChatVars
    /\ r \in 1..Len(reqs)
    /\ reqs[r].pc = "fetching"
    /\ \E response \in Responses :
          IF ResponseError(response) # Null
          THEN Throw(r, [reqs[r] EXCEPT !.response = response], ResponseError(response))
          ELSE /\ reqs' = [reqs EXCEPT
                             ![r].pc = "reading",
                             ![r].response = response,
                             ![r].newConvId =
                                 ConvIdOf(response.header,
                                          OrElse(reqs[r].conversationId, Undefined))]
               /\ UNCHANGED <<error, isLoading, toolStatus>>
    /\ UNCHANGED <<messages, conversationId, currentPresentation, clearPc, uuids,
                   lastEvent, eventsHandled, clears, deleteOutcome>>

\* useChat.ts:42-93: the callback of request r
OnEvent(r, event) ==
    /\ CASE event.type = "tool_start" ->
              /\ toolStatus' = ToolStart(toolStatus, event.tool)
              /\ UNCHANGED <<messages, uuids, currentPresentation, conversationId, error>>
         [] event.type = "tool_end" ->
              /\ toolStatus' = ToolEnd(toolStatus)
              /\ UNCHANGED <<messages, uuids, currentPresentation, conversationId, error>>
         [] event.type = "presentation" ->
              /\ currentPresentation' =
                    IF event.presentation # NullObject THEN event.presentation
                    ELSE currentPresentation
              /\ UNCHANGED <<messages, uuids, toolStatus, conversationId, error>>
         [] event.type = "final" ->
              /\ messages' = AppendMessage(messages, AssistantMessage(event, uuids + 1))
              /\ uuids' = uuids + 1
              /\ currentPresentation' = FinalPresentation(event, currentPresentation)
              /\ conversationId' =
                    IF OrElse(event.conversation_id, Null) # Null
                       /\ OrElse(reqs[r].conversationId, Null) = Null
                    THEN event.conversation_id
                    ELSE conversationId
              /\ UNCHANGED <<toolStatus, error>>
         [] event.type = "error" ->
              /\ error' = ErrorText(event)
              /\ UNCHANGED <<messages, uuids, currentPresentation, conversationId,
                             toolStatus>>
         [] OTHER ->
              UNCHANGED <<messages, uuids, currentPresentation, conversationId,
                          toolStatus, error>>

\* api.ts:63-81: a record of request r is decoded and handed to the callback
DeliverEvent(r) ==
    /\ UNCHANGED nonChatVars
    /\ r \in 1..Len(reqs)
    /\ reqs[r].pc = "reading"
    /\ eventsHandled < MaxEvents
    /\ \E event \in StreamEvents :
          /\ OnEvent(r, event)
          /\ lastEvent' = event
          /\ reqs' = [reqs EXCEPT ![r].calls = @ + 1,
                                  ![r].sawError = @ \/ event.type = "error",
                                  ![r].sawFinal = @ \/ event.type = "final",
                                  ![r].scenario =
                                      IF /\ @ = reqs[r].calls
                                         /\ @ < Len(ScenarioStream)
                                         /\ event = ScenarioStream[@ + 1]
                                      THEN @ + 1 ELSE @]
    /\ eventsHandled' = eventsHandled + 1
    /\ UNCHANGED <<isLoading, clearPc, clears, deleteOutcome>>

\* api.ts:64-65, 83 and useChat.ts:96-104: end of data, sendMessage completes
EndOfStream(r) ==
    /\ UNCHANGED nonChatVars
    /\ r \in 1..Len(reqs)
    /\ reqs[r].pc = "reading"
    /\ conversationId' =
          IF OrElse(reqs[r].conversationId, Null) = Null /\ reqs[r].newConvId # ""
          THEN reqs[r].newConvId
          ELSE conversationId
    /\ isLoading' = LoadingAfterExchange
    /\ toolStatus' = ToolStatusReset
    /\ reqs' = [reqs EXCEPT ![r].pc = "done", ![r].ending = "returned"]
    /\ UNCHANGED <<messages, error, currentPresentation, clearPc, uuids, lastEvent,
                   eventsHandled, clears, deleteOutcome>>

\* api.ts:64 and useChat.ts:99-104: reader.read() rejects
ReadFailure(r) ==
    /\ UNCHANGED nonChatVars
    /\ r \in 1..Len(reqs)
    /\ reqs[r].pc = "reading"
    /\ \E message \in ReadErrorMessages : Throw(r, reqs[r], message)
    /\ UNCHANGED <<messages, conversationId, currentPresentation, clearPc, uuids,
                   lastEvent, eventsHandled, clears, deleteOutcome>>

\* useChat.ts:120-123
ResetSession ==
    /\ messages' = <<>>
    /\ conversationId' = Null
    /\ currentPresentation' = NullObject
    /\ error' = Null

\* every call under way is marked as having seen the store reset
MarkCleared(rs) == [r \in 1..Len(rs) |-> IF rs[r].pc # "done" THEN [rs[r] EXCEPT !.cleared = TRUE]
                                          ELSE rs[r]]

\* how the DELETE /chat/{id} request may settle
DeleteOutcomes == {"fulfilled", "rejected"}

\* a clearChat whose catch rethrows
ClearErrorIgnored_Rethrown == FALSE

\* useChat.ts:116-118: catch { } around the await
ClearErrorIgnored == TRUE

\* useChat.ts:112-119: clearChat up to its await (none without a conversation id)
ClearChat ==
    /\ UNCHANGED nonChatVars
    /\ clearPc = "idle"
    /\ clears < MaxClears
    /\ clears' = clears + 1
    /\ IF conversationId # Null
       THEN /\ clearPc' = "deleting"
            /\ deleteOutcome' = "pending"
            /\ reqs' = Disturb(reqs)
            /\ UNCHANGED <<messages, conversationId, currentPresentation, error>>
       ELSE /\ ResetSession
            /\ deleteOutcome' = "unsent"
            /\ reqs' = MarkCleared(Disturb(reqs))
            /\ UNCHANGED clearPc
    /\ UNCHANGED <<isLoading, toolStatus, uuids, lastEvent, eventsHandled>>

\* useChat.ts:115-123: the DELETE settles and clearChat runs to its end
ClearSettled ==
    /\ UNCHANGED nonChatVars
    /\ clearPc = "deleting"
    /\ clearPc' = "idle"
    /\ \E outcome \in DeleteOutcomes :
          /\ deleteOutcome' = outcome
          /\ IF outcome = "rejected" /\ ~ClearErrorIgnored
             THEN /\ UNCHANGED <<messages, conversationId, currentPresentation, error>>
                  /\ reqs' = Disturb(reqs)
             ELSE /\ ResetSession
                  /\ reqs' = MarkCleared(Disturb(reqs))
    /\ UNCHANGED <<isLoading, toolStatus, uuids, lastEvent, eventsHandled, clears>>

NextChat ==
    \/ SubmitMessage
    \/ ClickSuggestion
    \/ \E r \in 1..Len(reqs) : ReceiveResponse(r)
    \/ \E r \in 1..Len(reqs) : DeliverEvent(r)
    \/ \E r \in 1..Len(reqs) : EndOfStream(r)
    \/ \E r \in 1..Len(reqs) : ReadFailure(r)
    \/ ClearChat
    \/ ClearSettled

(***************************************************************************)
(* Export: PresentationSidebar captureChartImages and handleExport.        *)
(***************************************************************************)
\* useChat.ts:60-65: the agent's deck becomes the current presentation
ReceivePresentation(deck) ==
    /\ UNCHANGED nonDeckVars
    /\ decksCreated < MaxDecks
    /\ decksCreated' = decksCreated + 1
    /\ currentPresentation' = deck
    /\ everIds' = IdsOf(deck.slides)
    /\ UNCHANGED <<selectedSlide, editingSlide, edits>>
    /\ UNCHANGED exportState

\* canvas.toDataURL('image/png').split(',')[1]
RasterImage == "iVBORw0KGgoAAAANSUhEUg"

\* a filter that also takes the chart slides that have an image
Qualifies_IgnoringImage(slide) ==
    /\ slide.contentType = "chart"
    /\ slide.chartConfig # NullObject

\* slide.contentType === 'chart' && slide.chartConfig && !slide.chartImage
Qualifies(slide) ==
    /\ slide.contentType = "chart"
    /\ slide.chartConfig # NullObject
    /\ slide.chartImage \in {Undefined, ""}

QualifyingPositions(slides) == {i \in 1..Len(slides) : Qualifies(slides[i])}

\* the positions of set P in increasing order
RECURSIVE Ascending(_)
Ascending(P) ==
    IF P = {} THEN <<>>
    ELSE LET least == CHOOSE i \in P : \A j \in P : i <= j
         IN  <<least>> \o Ascending(P \ {least})

\* slidesWithCharts.map(slide => ({ slideId: slide.id, config: slide.chartConfig }))
Targets(slides) ==
    LET q == Ascending(QualifyingPositions(slides))
    IN  [k \in 1..Len(q) |-> [slideId |-> slides[q[k]].id, config |-> slides[q[k]].chartConfig]]

\* a pipeline without the early return
NothingToCapture_Never(slides) == FALSE

\* slidesWithCharts.length === 0
NothingToCapture(slides) == QualifyingPositions(slides) = {}

\* an export button that is never disabled
ExportButtonEnabled_Always == TRUE

\* the export button: disabled={isExporting}
ExportButtonEnabled == ~isExporting

\* a capture whose exception leaves captureChartImages
CaptureErrorCaught_Rethrown == FALSE

\* PresentationSidebar.tsx:252-261: try / catch around html2canvas
CaptureErrorCaught == TRUE

\* a pipeline that leaves the charts mounted
TargetsAfterBatch_Kept == chartsToCapture

\* PresentationSidebar.tsx:268: setChartsToCapture([])
TargetsAfterBatch == <<>>

CaptureOutcomes == {"captured", "threw"}
PostOutcomes == {"fulfilled", "rejected"}

\* export e belongs to the sidebar instance that is mounted now
Mounted(e) == HasDeck(currentPresentation) /\ exports[e].instance = mounts

InitExport == exports = <<>>

\* an export that posts the slides of the deck as it is when the captures end
HandedOver_CurrentDeck(export) ==
    IF HasDeck(currentPresentation) THEN currentPresentation.slides ELSE export.out

\* PresentationSidebar.tsx:279-280: generatePptx(presentation.title, slidesWithImages)
HandedOver(export) == export.out

\* handleExport up to its first suspension: setIsExporting(true), then
\* captureChartImages up to the settle delay or, if nothing is to capture, up
\* to the POST of generatePptx
ExportStart ==
    /\ UNCHANGED nonExportVars
    /\ HasDeck(currentPresentation)
    /\ ExportButtonEnabled
    /\ Len(exports) < MaxExports
    /\ isExporting' = TRUE
    /\ LET slides == currentPresentation.slides
           export == [ instance |-> mounts,
                       \* the presentation of the render the handler belongs to
                       deck |-> currentPresentation,
                       out |-> slides,
                       pending |-> {},
                       threw |-> {},
                       noElement |-> {},
                       mounted |-> FALSE,
                       waits |-> 0,
                       returned |-> FALSE,
                       ending |-> "none",
                       \* the slide list handed to generatePptx, and the
                       \* current presentation at that moment
                       posted |-> <<>>,
                       deckAtPost |-> NullObject,
                       pc |-> "posting" ]
       IN  IF NothingToCapture(slides)
           THEN /\ exports' = Append(exports, [export EXCEPT
                                                  !.returned = TRUE,
                                                  !.posted = HandedOver(export),
                                                  !.deckAtPost = currentPresentation])
                /\ UNCHANGED chartsToCapture
           ELSE /\ exports' = Append(exports, [export EXCEPT !.pc = "settling",
                                                             !.mounted = TRUE])
                /\ chartsToCapture' = Targets(slides)
    /\ UNCHANGED mounts

\* Promise.all has settled: setChartsToCapture([]), return updatedSlides, POST
BatchReturns(e, export) ==
    /\ exports' = [exports EXCEPT ![e] = [export EXCEPT
                                             !.pc = "posting",
                                             !.returned = TRUE,
                                             !.posted = HandedOver(export),
                                             !.deckAtPost = currentPresentation]]
    /\ chartsToCapture' = IF Mounted(e) THEN TargetsAfterBatch ELSE chartsToCapture
    /\ UNCHANGED isExporting

\* captureChartImages throws: catch and finally of handleExport
ExportFails(e, export) ==
    /\ exports' = [exports EXCEPT ![e] = [export EXCEPT !.pc = "done",
                                                        !.ending = "failed"]]
    /\ isExporting' = IF Mounted(e) THEN FALSE ELSE isExporting
    /\ UNCHANGED chartsToCapture

\* the 500 ms timer fires: html2canvas is started for every qualifying slide
\* whose chart element is in chartRefs (a chart not rendered in time has none)
SettleDone(e) ==
    /\ UNCHANGED nonExportVars
    /\ e \in 1..Len(exports)
    /\ exports[e].pc = "settling"
    /\ \E missing \in SUBSET QualifyingPositions(exports[e].deck.slides) :
          LET started == QualifyingPositions(exports[e].deck.slides) \ missing
              export == [exports[e] EXCEPT !.noElement = missing,
                                           !.pending = started,
                                           !.waits = @ + 1,
                                           !.pc = "capturing"]
          IN  IF started = {}
              THEN BatchReturns(e, export)
              ELSE /\ exports' = [exports EXCEPT ![e] = export]
                   /\ UNCHANGED <<chartsToCapture, isExporting>>
    /\ UNCHANGED mounts

\* one html2canvas call settles
CaptureSettles(e) ==
    /\ UNCHANGED nonExportVars
    /\ e \in 1..Len(exports)
    /\ exports[e].pc = "capturing"
    /\ \E i \in exports[e].pending, outcome \in CaptureOutcomes :
          LET export ==
                 [exports[e] EXCEPT
                    !.pending = @ \ {i},
                    !.waits = @ + 1,
                    !.threw = IF outcome = "threw" THEN @ \cup {i} ELSE @,
                    !.out = IF outcome = "captured"
                            THEN [@ EXCEPT ![i].chartImage = RasterImage]
                            ELSE @]
          IN  IF outcome = "threw" /\ ~CaptureErrorCaught
              THEN ExportFails(e, export)
              ELSE IF export.pending = {}
              THEN BatchReturns(e, export)
              ELSE /\ exports' = [exports EXCEPT ![e] = export]
                   /\ UNCHANGED <<chartsToCapture, isExporting>>
    /\ UNCHANGED mounts

\* PresentationSidebar.tsx:280-286: generatePptx settles; saveAs or catch, finally
PostSettles(e) ==
    /\ UNCHANGED nonExportVars
    /\ e \in 1..Len(exports)
    /\ exports[e].pc = "posting"
    /\ \E outcome \in PostOutcomes :
          exports' = [exports EXCEPT
                        ![e].pc = "done",
                        ![e].ending = IF outcome = "fulfilled" THEN "saved" ELSE "failed"]
    /\ isExporting' = IF Mounted(e) THEN FALSE ELSE isExporting
    /\ UNCHANGED <<chartsToCapture, mounts>>

\* the sidebar with a deck of the agent or of the user, and its export button
NextExport ==
    \/ \E chart \in Charts, chartImage \in ChartImages : AddChart(chart, chartImage)
    \/ ReceivePresentation(ServerDeck(1))
    \/ CloseSidebar
    \/ ExportStart
    \/ \E e \in 1..Len(exports) : SettleDone(e)
    \/ \E e \in 1..Len(exports) : CaptureSettles(e)
    \/ \E e \in 1..Len(exports) : PostSettles(e)

\* the deck operations on decks of the agent and of the user
NextDeckServer ==
    \/ ReceivePresentation(ServerDeck(1))
    \/ \E chart \in Charts, chartImage \in ChartImages : AddChart(chart, chartImage)
    \/ \E slideId \in SlideIdArgs : DeleteSlide(slideId)
    \/ \E slideId \in SlideIdArgs, direction \in Directions : MoveSlide(slideId, direction)

(***************************************************************************)
(* "Add to Presentation": ChartRenderer handleCapture, then App            *)
(* handleAddChartToPresentation.                                           *)
(***************************************************************************)
InitAdd == captures = <<>>

\* part_001:22-58: onCapture is the callback of the render in which the button
\* was clicked; its handleAddChartToPresentation closes over the
\* currentPresentation of that render
DeckOfCallback(capture) == capture.deck

\* ChatWindow.tsx:144-150: handleCapture up to `await html2canvas(...)`
AddClick(chart) ==
    /\ Len(captures) < MaxCaptures
    /\ captures' = Append(captures, [ chart |-> chart,
                                      deck |-> currentPresentation,
                                      pc |-> "capturing",
                                      ending |-> "none" ])
    /\ UNCHANGED <<deckVars, codecVars, chatVars, exports>>

\* ChatWindow.tsx:150-156: html2canvas settles; onCapture(imageData) or catch
AddCaptureSettles(c) ==
    /\ c \in 1..Len(captures)
    /\ captures[c].pc = "capturing"
    /\ \E outcome \in CaptureOutcomes :
          IF outcome = "threw"
          THEN /\ captures' = [captures EXCEPT ![c].pc = "done", ![c].ending = "failed"]
               /\ UNCHANGED <<currentPresentation, everIds, decksCreated>>
          ELSE /\ captures' = [captures EXCEPT ![c].pc = "done", ![c].ending = "added"]
               /\ LET deck == DeckOfCallback(captures[c])
                  IN  IF HasDeck(deck)
                      THEN /\ Len(deck.slides) < MaxSlides
                           /\ SetDeck(appendChart(deck, captures[c].chart, CapturedImage))
                           /\ UNCHANGED decksCreated
                      ELSE /\ decksCreated < MaxDecks
                           /\ SetDeck(createFromChart(captures[c].chart, CapturedImage,
                                                      decksCreated + 1))
                           /\ decksCreated' = decksCreated + 1
    /\ UNCHANGED <<selectedSlide, editingSlide, edits, exportState>>
    /\ UNCHANGED <<codecVars, chatVars, exports>>

(***************************************************************************)
(* Specifications of the deck.                                             *)
(***************************************************************************)
vars == <<deckVars, codecVars, chatVars, exports, captures>>

\* the state after construction: no deck, no request in flight
Init ==
    /\ InitDeck
    /\ InitCodec
    /\ InitChat
    /\ InitExport
    /\ InitAdd

\* the deck operations as functions, called with any slide id and direction
NextDeckOps ==
    \/ \E chart \in Charts, chartImage \in ChartImages : AddChart(chart, chartImage)
    \/ \E slideId \in SlideIdArgs : DeleteSlide(slideId)
    \/ \E slideId \in SlideIdArgs, direction \in Directions : MoveSlide(slideId, direction)

SpecDeckOps == Init /\ [][NextDeckOps]_vars

\* the sidebar as the user drives it: every button belongs to a rendered slide;
\* the move buttons are disabled by `slide.order === 1` and
\* `slide.order === presentation.slides.length`
RenderedSlides ==
    IF HasDeck(currentPresentation)
    THEN {currentPresentation.slides[i] : i \in 1..Len(currentPresentation.slides)}
    ELSE {}

MoveButtonEnabled(slide, direction) ==
    IF direction = "up" THEN slide.order # 1
    ELSE slide.order # Len(currentPresentation.slides)

NextDeck ==
    \* ChartRenderer handleCapture always passes the captured payload
    \/ \E chart \in Charts : AddChart(chart, CapturedImage)
    \/ \E slide \in RenderedSlides : DeleteSlide(slide.id)
    \/ \E slide \in RenderedSlides, direction \in Directions :
          MoveButtonEnabled(slide, direction) /\ MoveSlide(slide.id, direction)
    \/ \E slide \in RenderedSlides : SlideClick(slide.id)
    \/ EditField
    \/ SlideUpdate
    \/ CancelEdit
    \/ CloseSidebar

SpecDeck == Init /\ [][NextDeck]_vars

SpecCodec == Init /\ [][NextCodec]_vars

SpecExport == Init /\ [][NextExport]_vars

SpecDeckServer == Init /\ [][NextDeckServer]_vars

SpecChat == Init /\ [][NextChat]_vars

\* an export is in its settle delay or in its captures
ExportUnderWay == \E e \in 1..Len(exports) : exports[e].pc \in {"settling", "capturing"}

\* one export of a deck of chart slides; the deck buttons are pressed and the
\* editor's copy is saved while that export is under way
NextExportEdit ==
    \/ (exports = <<>> \/ ExportUnderWay) /\ AddChart([type |-> "chart", title |-> "Revenue"], Undefined)
    \/ \E slide \in RenderedSlides : ExportUnderWay /\ DeleteSlide(slide.id)
    \/ \E slide \in RenderedSlides, direction \in Directions :
          ExportUnderWay /\ MoveButtonEnabled(slide, direction)
                         /\ MoveSlide(slide.id, direction)
    \/ \E slide \in RenderedSlides : ExportUnderWay /\ SlideClick(slide.id)
    \/ ExportUnderWay /\ SlideUpdate
    \/ exports = <<>> /\ ExportStart
    \/ \E e \in 1..Len(exports) : SettleDone(e)
    \/ \E e \in 1..Len(exports) : CaptureSettles(e)
    \/ \E e \in 1..Len(exports) : PostSettles(e)

SpecExportEdit == Init /\ [][NextExportEdit]_vars

\* the "Add to Presentation" buttons of the chat and the sidebar's deck buttons
NextAdd ==
    \/ \E chart \in Charts : AddClick(chart)
    \/ \E c \in 1..Len(captures) : AddCaptureSettles(c)
    \/ ReceivePresentation(ServerDeck(1))
    \/ \E slide \in RenderedSlides : DeleteSlide(slide.id)
    \/ \E slide \in RenderedSlides, direction \in Directions :
          MoveButtonEnabled(slide, direction) /\ MoveSlide(slide.id, direction)
    \/ CloseSidebar

SpecAdd == Init /\ [][NextAdd]_vars

(***************************************************************************)
(* Properties of the deck.                                                 *)
(***************************************************************************)
Slides == currentPresentation.slides

\* order is 1..N by array position
OrderOK(deck) ==
    HasDeck(deck) => \A i \in 1..Len(deck.slides) : deck.slides[i].order = i

\* C1: from createFromChart on, after any sequence of appendChart, deleteSlide
\* and moveSlide (any slide ids, any directions) the slide at 0-based array
\* position i has order i+1, so the order values are exactly 1..N.
C1_OrderMatchesPosition ==
    HasDeck(currentPresentation) =>
        /\ \A i \in 1..Len(Slides) : Slides[i].order = i
        /\ {Slides[i].order : i \in 1..Len(Slides)} = 1..Len(Slides)

\* a deck that was appended to twice, lost its first slide and had the third
\* slide moved up
C1_Witness ==
    /\ HasDeck(currentPresentation)
    /\ Len(Slides) = 2
    /\ Slides[1].id = SlideId(3)
    /\ Slides[2].id = SlideId(2)

\* C2: every deck operation, updateSlide with the editor's copy included,
\* leaves order a contiguous 1..N sequence equal to array position + 1.
C2_EveryOperationKeepsOrder ==
    [][OrderOK(currentPresentation) => OrderOK(currentPresentation')]_vars

\* C3: the id given to a newly appended slide differs from the id of every
\* slide that has ever been in the deck.
C3_AppendedIdIsFresh ==
    [][ ( /\ HasDeck(currentPresentation)
          /\ HasDeck(currentPresentation')
          /\ Len(currentPresentation'.slides) = Len(Slides) + 1 )
        => currentPresentation'.slides[Len(Slides) + 1].id \notin everIds ]_vars

\* C4: no two slides of the current deck have the same id.
C4_SlideIdsUnique ==
    HasDeck(currentPresentation) =>
        \A i, j \in 1..Len(Slides) :
            (i # j /\ Slides[i].id # UndefinedId) => Slides[i].id # Slides[j].id

(***************************************************************************)
(* Properties of the codec and the transport driver.                       *)
(***************************************************************************)
\* the whole response body
Stream == Flatten(records)

\* the events delivered when the text arrives as a single chunk
OneChunkEvents(text) == DecodeLines(CompleteLines(SplitLines(text)))

\* the server wrote only delimiter-terminated records
Framed == \A i \in 1..Len(records) : records[i] \in FramedRecords

\* the bodies of the well-formed records, in the order they were written
RECURSIVE GoodBodies(_)
GoodBodies(recs) ==
    IF recs = <<>> THEN <<>>
    ELSE (IF \E b \in JsonBodies : Head(recs) = GoodRecord(b)
          THEN <<Head(recs)[Len(Marker) + 2]>> ELSE <<>>)
         \o GoodBodies(Tail(recs))

IsPrefix(a, b) == Len(a) <= Len(b) /\ SubSeq(b, 1, Len(a)) = a

\* C5: however the body is cut into chunks (between the two line breaks of a
\* delimiter and inside a payload included), the events delivered to the
\* callback are those delivered when the body arrives as one chunk.
C5_ChunkBoundaryIndependent ==
    streamPc = "returned" => delivered = OneChunkEvents(Stream)

\* a body that was cut both inside a delimiter and inside a payload
C5_Witness ==
    /\ streamPc = "returned"
    /\ cuts = {"delimiter", "payload"}
    /\ Len(delivered) >= 2

\* C6: a malformed record is dropped and the stream goes on: the driver never
\* fails on a record, and a body of delimited records of which some are
\* malformed (one between two well-formed ones in particular) delivers
\* exactly the well-formed events, in their original order, and returns.
C6_LenientDecode ==
    /\ streamPc = "threw" => streamResult # "SyntaxError"
    /\ ( /\ streamPc = "returned"
         /\ Framed
         /\ \E i \in 1..Len(records) : records[i] = MalformedRecord )
       => delivered = GoodBodies(records)

\* one malformed record between two well-formed records
C6_Witness ==
    /\ streamPc = "returned"
    /\ records = <<GoodRecord("2"), MalformedRecord, GoodRecord("1")>>
    /\ delivered = <<"2", "1">>

\* C7: the callback is invoked once per successfully decoded record, in
\* arrival order, and never while the previous invocation is still running.
C7_CallbackOncePerRecordInOrder ==
    /\ activeHandlers <= 1
    /\ Framed => IsPrefix(delivered, GoodBodies(records))
    /\ (Framed /\ streamPc = "returned") => Len(delivered) = Len(GoodBodies(records))

\* the handler of the second event runs while a third line of the same chunk waits
C7_Witness ==
    /\ activeHandlers = 1
    /\ Len(delivered) = 2
    /\ pending # <<>>
    /\ records = <<GoodRecord("1"), GoodRecord("2"), GoodRecord("1")>>

(***************************************************************************)
(* Properties of the conversation store.                                   *)
(***************************************************************************)
Requests == 1..Len(reqs)

\* request r ends in this step
Ends(r) == reqs[r].pc # "done" /\ reqs'[r].pc = "done"

\* C8: when an exchange that ran on its own (no other sendMessage and no
\* clearChat overlapped it) ends in failure - sendMessageStream threw for a
\* non-success status, a missing body or a failed read, or the callback got an
\* error event - the store then holds one error text, loading is false and the
\* tool tracker is { isActive: false, currentTool: null, toolHistory: [] },
\* whatever events came before.
C8_FailedExchangeLeavesOneError ==
    [][ \A r \in Requests :
          ( /\ Ends(r)
            /\ reqs'[r].alone
            /\ reqs'[r].ending = "threw" \/ reqs'[r].sawError )
          => ( /\ error' \notin {Null, Undefined, ""}
               /\ isLoading' = FALSE
               /\ toolStatus' = ToolStatusReset ) ]_vars

\* a read failure after an unmatched tool_start
C8_Witness ==
    \E r \in Requests :
        /\ reqs[r].pc = "done"
        /\ reqs[r].alone
        /\ reqs[r].ending = "threw"
        /\ reqs[r].response.kind = "ok"
        /\ reqs[r].calls >= 1
        /\ lastEvent.type = "tool_start"
        /\ error \in ReadErrorMessages

FailedResponseKinds == {"http_error", "no_body"}

ResponseErrorText(response) ==
    IF response.kind = "no_body" THEN "No response body"
    ELSE IF response.status = 404 THEN "HTTP error! status: 404"
    ELSE "HTTP error! status: 500"

\* C9: a response with a non-success status or without a body ends the
\* exchange at once: the callback of that request is never invoked, the error
\* becomes the text of the failure, loading becomes false and the message log
\* is left as it was (no assistant message).
C9_FailedResponseEndsBeforeAnyCallback ==
    [][ \A r \in Requests :
          /\ ( /\ reqs[r].pc = "fetching"
               /\ reqs'[r].response.kind \in FailedResponseKinds )
             => ( /\ reqs'[r].pc = "done"
                  /\ reqs'[r].calls = 0
                  /\ error' = ResponseErrorText(reqs'[r].response)
                  /\ isLoading' = FALSE
                  /\ messages' = messages )
          /\ reqs[r].response.kind \in FailedResponseKinds
             => ( /\ reqs'[r].pc = "done"
                  /\ reqs'[r].calls = 0 ) ]_vars

C9_Witness ==
    \E r \in Requests :
        /\ reqs[r].pc = "done"
        /\ reqs[r].response.kind = "http_error"
        /\ reqs[r].response.status = 500
        /\ error = "HTTP error! status: 500"
        /\ ~isLoading
        /\ Len(messages) = 1

\* the text of a final event; an event without one gives the empty text
ResponseText(event) == IF event.response = Undefined THEN "" ELSE event.response

\* C10: the step in which the callback handles a final event makes the log
\* one message longer; the new last message is an assistant message with the
\* event's response text, charts, presentations and suggestions, and the
\* messages that were in the log are the same, at the same positions.
C10_FinalAppendsOneAssistantMessage ==
    [][ ( /\ eventsHandled' = eventsHandled + 1
          /\ lastEvent'.type = "final" )
        => ( /\ Len(messages') = Len(messages) + 1
             /\ SubSeq(messages', 1, Len(messages)) = messages
             /\ LET added == messages'[Len(messages')]
                IN  /\ added.role = "assistant"
                    /\ added.content = ResponseText(lastEvent')
                    /\ added.charts = lastEvent'.charts
                    /\ added.presentations = lastEvent'.presentations
                    /\ added.suggestions = lastEvent'.suggestions ) ]_vars

\* a final event with a chart and a deck was handled after another message pair
C10_Witness ==
    /\ lastEvent.type = "final"
    /\ Len(messages) = 4
    /\ messages[2].role = "assistant"
    /\ messages[3].role = "user"
    /\ messages[4].role = "assistant"
    /\ messages[4].suggestions = List(<<"Show by region">>)
    /\ messages[2].charts.items # <<>>

\* the callback of request r handles an event in this step
Delivery(r) == reqs'[r].calls = reqs[r].calls + 1

\* the callback of request r has handled a final or an error event
Terminated(r) == reqs[r].sawFinal \/ reqs[r].sawError

\* C11: once the callback of a request has handled a final or an error event,
\* a later event of the same request changes neither the message log, nor the
\* error, nor the current presentation, nor the tool tracker.
C11_NoChangeAfterTerminalEvent ==
    [][ \A r \in Requests :
          (Delivery(r) /\ Terminated(r))
          => UNCHANGED <<messages, error, currentPresentation, toolStatus>> ]_vars

\* C12: handling an error event makes the event's message the error (an
\* event without a message gives the text 'An error occurred') and leaves the
\* message log, the conversation id and the current presentation as they were.
C12_ErrorEventRecordsMessage ==
    [][ ( /\ eventsHandled' = eventsHandled + 1
          /\ lastEvent'.type = "error" )
        => ( /\ error' = ( IF lastEvent'.message = Undefined THEN "An error occurred"
                           ELSE lastEvent'.message )
             /\ UNCHANGED <<messages, conversationId, currentPresentation>> ) ]_vars

\* an error event handled after an answer that set the id and the presentation
C12_Witness ==
    /\ lastEvent.type = "error"
    /\ lastEvent.message = "Agent failed"
    /\ error = "Agent failed"
    /\ conversationId = "c2"
    /\ currentPresentation = ServerDeck(2)
    /\ Len(messages) = 2

\* C13: the conversation id goes from absent to present only in the step
\* that handles a final event carrying that id.
C13_IdentityOnlyFromFinal ==
    [][ (conversationId = Null /\ conversationId' # Null)
        => ( /\ eventsHandled' = eventsHandled + 1
             /\ lastEvent'.type = "final"
             /\ lastEvent'.conversation_id = conversationId' ) ]_vars

\* clearChat resets the store in this step
ClearStep ==
    /\ clearPc' = "idle"
    /\ clears' = clears + 1 \/ clearPc = "deleting"

\* C14: a conversation id that is set changes only when clearChat removes it,
\* and every sendMessage call started while it is set carries it.
C14_IdentityNeverReplaced ==
    [][ /\ (conversationId # Null /\ conversationId' # conversationId)
           => (ClearStep /\ conversationId' = Null)
        /\ (Len(reqs') = Len(reqs) + 1 /\ conversationId # Null)
           => reqs'[Len(reqs')].conversationId = conversationId ]_vars

\* C15: tool_start with a name makes the tracker active, makes the name the
\* current tool and appends it to the history; tool_end makes the tracker
\* inactive with no current tool and keeps the history. So tool_start events in
\* a row leave the last name current and all names in the history, in order.
C15_ToolTrackerTransitions ==
    [][ /\ ( /\ eventsHandled' = eventsHandled + 1
             /\ lastEvent'.type = "tool_start"
             /\ lastEvent'.tool # Undefined )
           => ( /\ toolStatus'.isActive = TRUE
                /\ toolStatus'.currentTool = lastEvent'.tool
                /\ toolStatus'.toolHistory =
                      toolStatus.toolHistory \o <<lastEvent'.tool>> )
        /\ ( /\ eventsHandled' = eventsHandled + 1
             /\ lastEvent'.type = "tool_end" )
           => ( /\ toolStatus'.isActive = FALSE
                /\ toolStatus'.currentTool = Null
                /\ toolStatus'.toolHistory = toolStatus.toolHistory ) ]_vars

\* two tool_start events in a row
C15_Witness ==
    /\ lastEvent.type = "tool_start"
    /\ toolStatus = [ isActive |-> TRUE, currentTool |-> "generate_chart",
                      toolHistory |-> <<"execute_sql_query", "generate_chart">> ]

\* C16: the step that handles a final or an error event, and the step that
\* starts a new sendMessage call, leave the tool tracker at
\* { isActive: false, currentTool: null, toolHistory: [] }.
C16_TerminalEventResetsTracker ==
    [][ /\ ( /\ eventsHandled' = eventsHandled + 1
             /\ lastEvent'.type \in {"final", "error"} )
           => toolStatus' = ToolStatusReset
        /\ Len(reqs') = Len(reqs) + 1 => toolStatus' = ToolStatusReset ]_vars

\* request r ran alone, was sent without a conversation id, and its callback
\* has handled exactly the events of ScenarioStream
ScenarioHandled(r) ==
    /\ reqs[r].alone
    /\ reqs[r].conversationId = Null
    /\ reqs[r].calls = Len(ScenarioStream)
    /\ reqs[r].scenario = Len(ScenarioStream)

\* what the store holds after the events of ScenarioStream
ScenarioOutcome(r) ==
    /\ toolStatus = [ isActive |-> FALSE, currentTool |-> Null,
                      toolHistory |-> <<"execute_sql_query">> ]
    /\ Len(messages) >= 2
    /\ messages[Len(messages) - 1].id = reqs[r].userId
    /\ messages[Len(messages)].role = "assistant"
    /\ messages[Len(messages)].content = "Total sales: $1000"
    /\ messages[Len(messages)].suggestions = List(<<"Show by region">>)
    /\ conversationId = "c1"

C18_ClearAlwaysResets ==
    [][ ClearStep
        => ( /\ messages' = <<>>
             /\ conversationId' = Null
             /\ currentPresentation' = NullObject
             /\ error' = Null ) ]_vars

\* a clearChat whose DELETE was rejected
C18_Witness ==
    /\ deleteOutcome = "rejected"
    /\ clearPc = "idle"
    /\ messages = <<>>
    /\ conversationId = Null
    /\ error = Null
    /\ uuids >= 2

\* C19: clearChat leaves the calls under way where they are; the callback of
\* a call that saw the reset still handles each event and the call goes on
\* reading, the log growing by at most one message; and when such a call ends,
\* loading is false.
C19_EventsAfterClearTolerated ==
    [][ \A r \in Requests :
          /\ ClearStep => reqs'[r].pc = reqs[r].pc
          /\ (Delivery(r) /\ reqs[r].cleared)
             => ( /\ reqs'[r].pc = "reading"
                  /\ IsPrefix(messages, messages')
                  /\ Len(messages') <= Len(messages) + 1 )
          /\ (Ends(r) /\ reqs[r].cleared) => isLoading' = FALSE ]_vars

\* a final event applied to the reset store, and the call ended
C19_Witness ==
    \E r \in Requests :
        /\ reqs[r].cleared
        /\ reqs[r].pc = "done"
        /\ reqs[r].ending = "returned"
        /\ reqs[r].sawFinal
        /\ ~isLoading
        /\ Len(messages) = 1
        /\ messages[1].role = "assistant"

\* ids are handed out in arrival order: the log is ordered by arrival
OrderedByArrival(log) ==
    \A i, j \in 1..Len(log) : i < j => log[i].id < log[j].id

\* C20: every step other than a clearChat reset keeps the log as a prefix of
\* the new log; the log is ordered by arrival; and when a call that saw no reset
\* appends its assistant message, its user message is in the log before it.
C20_LogAppendOnly ==
    [][ /\ IsPrefix(messages, messages') \/ (ClearStep /\ messages' = <<>>)
        /\ OrderedByArrival(messages')
        /\ \A r \in Requests :
              ( /\ Delivery(r)
                /\ ~reqs[r].cleared
                /\ Len(messages') = Len(messages) + 1 )
              => \E i \in 1..Len(messages) :
                    /\ messages'[i].id = reqs[r].userId
                    /\ messages'[i].role = "user" ]_vars

\* two overlapping calls, each with its answer in the log
C20_Witness ==
    /\ Len(messages) = 4
    /\ messages[1].role = "user"
    /\ messages[2].role = "assistant"
    /\ messages[3].role = "user"
    /\ messages[4].role = "assistant"
    /\ Len(reqs) = 2
    /\ reqs[1].pc = "reading"
    /\ reqs[2].pc = "reading"
    /\ reqs[2].sawFinal

(***************************************************************************)
(* Properties of the deck operations on reachable decks.                   *)
(***************************************************************************)
\* the slides without the one at position i (1-based)
WithoutPosition(slides, i) ==
    [j \in 1..(Len(slides) - 1) |-> IF j < i THEN slides[j] ELSE slides[j + 1]]

\* C21: on every reachable deck, moving the first slide up and moving the
\* last slide down give back the deck itself.
C21_MoveAtBoundaryIsNoOp ==
    (HasDeck(currentPresentation) /\ Len(Slides) >= 1)
    => ( /\ moveSlide(currentPresentation, Slides[1].id, "up") = currentPresentation
         /\ moveSlide(currentPresentation, Slides[Len(Slides)].id, "down")
               = currentPresentation )

\* C22: on every reachable deck, deleting by the id of the slide at position
\* i leaves the other slides, in their order and with their fields, renumbered
\* by position: one slide fewer.
C22_DeleteRemovesExactlyOne ==
    HasDeck(currentPresentation)
    => \A i \in 1..Len(Slides) :
          deleteSlide(currentPresentation, Slides[i].id).slides
             = Renumber(WithoutPosition(Slides, i))

\* "Save Changes" is pressed in this step
SaveStep ==
    /\ EditorOpen
    /\ editingSlide' = NullObject
    /\ HasDeck(currentPresentation')

\* C23: "Save Changes" leaves the number of slides, every slide's id, order,
\* chartConfig and chartImage, and every slide with another id than the
\* edited one, as they were.
C23_UpdateChangesOnlyEditableFields ==
    [][ SaveStep
        => LET old == currentPresentation.slides
               new == currentPresentation'.slides
           IN  /\ Len(new) = Len(old)
               /\ \A i \in 1..Len(old) :
                     /\ new[i].id = old[i].id
                     /\ new[i].order = old[i].order
                     /\ new[i].chartConfig = old[i].chartConfig
                     /\ new[i].chartImage = old[i].chartImage
                     /\ old[i].id # editingSlide.id => new[i] = old[i] ]_vars

(***************************************************************************)
(* Properties of the export.                                               *)
(***************************************************************************)
Exports == 1..Len(exports)

\* captureChartImages of export e has returned its slide list
Rasterized(e) == exports[e].returned

\* slide a but for its image
SameButImage(a, b) == [a EXCEPT !.chartImage = b.chartImage] = b

\* C24: the slide list captureChartImages returns has the slides of the deck
\* it was called with, in their sequence, each unchanged but for chartImage; a
\* slide whose chartImage differs qualified (chart, with chartConfig, without
\* image); and when no capture failed every qualifying slide has an image.
C24_RasterizationKeepsSlides ==
    \A e \in Exports :
        Rasterized(e)
        => LET in == exports[e].deck.slides
               out == exports[e].out
           IN  /\ Len(out) = Len(in)
               /\ \A i \in 1..Len(in) :
                     /\ SameButImage(in[i], out[i])
                     /\ out[i].chartImage # in[i].chartImage
                        => ( /\ in[i].contentType = "chart"
                             /\ in[i].chartConfig # NullObject
                             /\ in[i].chartImage \in {Undefined, ""} )
                     /\ ( /\ exports[e].threw = {}
                          /\ exports[e].noElement = {}
                          /\ in[i].contentType = "chart"
                          /\ in[i].chartConfig # NullObject )
                        => out[i].chartImage \notin {Undefined, ""}

\* a text slide and two chart slides without image: images on the two
C24_Witness ==
    \E e \in Exports :
        /\ Rasterized(e)
        /\ Len(exports[e].out) = 3
        /\ exports[e].deck.slides[1].contentType = "text"
        /\ exports[e].out[1] = exports[e].deck.slides[1]
        /\ exports[e].deck.slides[2].chartImage = ""
        /\ exports[e].deck.slides[3].chartImage = ""
        /\ exports[e].out[2].chartImage = RasterImage
        /\ exports[e].out[3].chartImage = RasterImage

\* no slide of the deck of export e is a chart with chartConfig and without image
NoneQualifies(e) ==
    \A i \in 1..Len(exports[e].deck.slides) :
        LET slide == exports[e].deck.slides[i]
        IN  ~( /\ slide.contentType = "chart"
               /\ slide.chartConfig # NullObject
               /\ slide.chartImage \in {Undefined, ""} )

\* C25: when no slide qualifies, captureChartImages returns the deck's slides
\* as they are, mounts no chart and passes neither the settle delay nor a capture.
C25_NothingToCaptureReturnsAtOnce ==
    \A e \in Exports :
        NoneQualifies(e)
        => ( /\ Rasterized(e)
             /\ exports[e].out = exports[e].deck.slides
             /\ ~exports[e].mounted
             /\ exports[e].waits = 0 )

\* a deck with a text slide and a chart slide that has its image
C25_Witness ==
    \E e \in Exports :
        /\ NoneQualifies(e)
        /\ Len(exports[e].deck.slides) = 2
        /\ exports[e].deck.slides[1].contentType = "text"
        /\ exports[e].deck.slides[2].chartImage = CapturedImage
        /\ exports[e].pc = "done"
        /\ exports[e].ending = "saved"

\* C26: a capture that throws leaves its slide without image, the captures
\* that succeed give their slides an image, and the batch still returns the
\* whole slide list: no export ends without it.
C26_PartialCaptureSuccess ==
    \A e \in Exports :
        /\ exports[e].pc \in {"posting", "done"} => Rasterized(e)
        /\ Rasterized(e)
           => /\ Len(exports[e].out) = Len(exports[e].deck.slides)
              /\ \A i \in exports[e].threw :
                    exports[e].out[i].chartImage = exports[e].deck.slides[i].chartImage
              /\ \A i \in 1..Len(exports[e].out) :
                    ( /\ exports[e].mounted
                      /\ exports[e].deck.slides[i].contentType = "chart"
                      /\ exports[e].deck.slides[i].chartConfig # NullObject
                      /\ exports[e].deck.slides[i].chartImage \in {Undefined, ""}
                      /\ i \notin exports[e].threw
                      /\ i \notin exports[e].noElement )
                    => exports[e].out[i].chartImage = RasterImage

\* one capture threw, the other gave its image, and the file was saved
C26_Witness ==
    \E e \in Exports :
        /\ exports[e].pc = "done"
        /\ exports[e].ending = "saved"
        /\ exports[e].threw = {1}
        /\ exports[e].out[1].chartImage = ""
        /\ Len(exports[e].out) = 2
        /\ exports[e].out[2].chartImage = RasterImage

\* export e ends in this step
ExportEnds(e) == exports[e].pc # "done" /\ exports'[e].pc = "done"

\* C27: when an export that mounted charts ends in a sidebar that is still
\* mounted - captures all succeeded, some or all threw, or the POST failed -
\* no off-screen chart is mounted and isExporting is false.
C27_TargetsReleasedOnEveryPath ==
    [][ \A e \in Exports :
          ( /\ ExportEnds(e)
            /\ exports[e].mounted
            /\ HasDeck(currentPresentation')
            /\ exports[e].instance = mounts' )
          => ( /\ chartsToCapture' = <<>>
               /\ isExporting' = FALSE ) ]_vars

\* both captures threw and the POST failed
C27_Witness ==
    \E e \in Exports :
        /\ exports[e].pc = "done"
        /\ exports[e].ending = "failed"
        /\ exports[e].threw = {1, 2}
        /\ exports[e].instance = mounts
        /\ HasDeck(currentPresentation)
        /\ chartsToCapture = <<>>
        /\ ~isExporting

\* the exports of the mounted sidebar that have not ended
InFlightExports ==
    {e \in Exports : exports[e].pc # "done" /\ exports[e].instance = mounts}

C29_SlideCountMatchesSlides ==
    (HasDeck(currentPresentation) /\ currentPresentation.metadata.present)
    => currentPresentation.metadata.slideCount = Len(currentPresentation.slides)

\* C30: a sendMessage call starts only while loading is false and no other
\* call is under way, and loading is true for as long as a call is under way.
C30_ExchangesNeverOverlap ==
    [][ /\ Len(reqs') = Len(reqs) + 1 => (~isLoading /\ ~AnyInFlight)
        /\ AnyInFlight => isLoading ]_vars

(***************************************************************************)
(* Properties of moveSlide and of the two ways a chart becomes a slide.    *)
(***************************************************************************)
\* the slides with those at positions i and j (1-based) exchanged
Exchanged(slides, i, j) ==
    [k \in 1..Len(slides) |-> IF k = i THEN slides[j]
                              ELSE IF k = j THEN slides[i] ELSE slides[k]]

\* C31: on every reachable deck, moving the slide at position i by its id
\* towards a neighbour it has exchanges the two and renumbers by position, all
\* other slides staying as they are; moving by an id that no slide has gives
\* back the deck itself.
C31_MoveSwapsWithNeighbour ==
    HasDeck(currentPresentation)
    => /\ \A i \in 1..Len(Slides) :
             /\ i > 1 => moveSlide(currentPresentation, Slides[i].id, "up").slides
                            = Renumber(Exchanged(Slides, i, i - 1))
             /\ i < Len(Slides)
                => moveSlide(currentPresentation, Slides[i].id, "down").slides
                      = Renumber(Exchanged(Slides, i, i + 1))
       /\ \A slideId \in SlideIdArgs \ IdsOf(Slides), direction \in Directions :
             moveSlide(currentPresentation, slideId, direction) = currentPresentation

\* C32: createFromChart gives one slide with id slide-1, order 1, kind chart
\* and the chart's title; appendChart on the current deck of n slides gives
\* n+1 slides, the first n as they were, the last with id slide-(n+1), order
\* n+1, kind chart and the chart's title.
C32_CreateAndAppend ==
    \A chart \in Charts, chartImage \in ChartImages :
        /\ LET created == createFromChart(chart, chartImage, 1).slides
           IN  /\ Len(created) = 1
               /\ created[1].id = SlideId(1)
               /\ created[1].order = 1
               /\ created[1].contentType = "chart"
               /\ created[1].title = chart.title
        /\ HasDeck(currentPresentation)
           => LET n == Len(Slides)
                  appended == appendChart(currentPresentation, chart, chartImage).slides
              IN  /\ Len(appended) = n + 1
                  /\ SubSeq(appended, 1, n) = Slides
                  /\ appended[n + 1].id = SlideId(n + 1)
                  /\ appended[n + 1].order = n + 1
                  /\ appended[n + 1].contentType = "chart"
                  /\ appended[n + 1].title = chart.title

\* createFromChart("Revenue") then appendChart("Costs")
C32_Witness ==
    /\ HasDeck(currentPresentation)
    /\ Len(Slides) = 2
    /\ Slides[1].id = SlideId(1) /\ Slides[1].order = 1 /\ Slides[1].title = "Revenue"
    /\ Slides[2].id = SlideId(2) /\ Slides[2].order = 2 /\ Slides[2].title = "Costs"

(***************************************************************************)
(* Properties of the conversation store, continued.                        *)
(***************************************************************************)
\* a sendMessage call starts in this step
Starts == Len(reqs') = Len(reqs) + 1

\* C33: the step that starts a request leaves loading true, the error absent,
\* the tool tracker reset and the user message at the end of the log, and the
\* request has handled no event yet; when a request fails, its user message
\* is in the log unless the chat was cleared meanwhile.
C33_RequestStart ==
    [][ /\ Starts
           => LET r == Len(reqs')
              IN  /\ isLoading'
                  /\ error' = Null
                  /\ toolStatus' = ToolStatusReset
                  /\ Len(messages') = Len(messages) + 1
                  /\ SubSeq(messages', 1, Len(messages)) = messages
                  /\ messages'[Len(messages')].role = "user"
                  /\ messages'[Len(messages')].id = reqs'[r].userId
                  /\ reqs'[r].calls = 0
        /\ \A r \in Requests :
              (Ends(r) /\ reqs'[r].ending = "threw" /\ ~reqs'[r].cleared)
              => \E i \in 1..Len(messages') :
                    /\ messages'[i].id = reqs[r].userId
                    /\ messages'[i].role = "user" ]_vars

\* a second request was started after the first had failed with an error
C33_Witness ==
    /\ Len(reqs) = 2
    /\ reqs[1].ending = "threw"
    /\ reqs[2].pc = "fetching"
    /\ error = Null
    /\ isLoading
    /\ Len(messages) = 2
    /\ messages[1].role = "user"
    /\ messages[2].role = "user"

\* the callback handles an event in this step
Handles == eventsHandled' = eventsHandled + 1

\* C34: a presentation event with a snapshot makes the snapshot the current
\* presentation at once; a final event with a non-empty presentation list
\* makes the list's first entry current; a final event with an empty or absent
\* list and tool_start, tool_end and error events leave it as it is.
C34_CurrentPresentation ==
    [][ Handles
        => LET event == lastEvent'
           IN  /\ (event.type = "presentation" /\ event.presentation # NullObject)
                  => currentPresentation' = event.presentation
               /\ (event.type = "final" /\ event.presentations.present
                                        /\ event.presentations.items # <<>>)
                  => currentPresentation' = event.presentations.items[1]
               /\ (event.type = "final" /\ ( \/ ~event.presentations.present
                                             \/ event.presentations.items = <<>> ))
                  => currentPresentation' = currentPresentation
               /\ event.type \in {"tool_start", "tool_end", "error"}
                  => currentPresentation' = currentPresentation ]_vars

\* the final event of a request that had handled an event before made the
\* first entry of its presentation list the current presentation
C34_Witness ==
    /\ lastEvent.type = "final"
    /\ currentPresentation = ServerDeck(2)
    /\ \E r \in Requests : reqs[r].calls >= 2 /\ reqs[r].pc = "reading"

\* C36: once a clear has completed, and as long as no new request is sent,
\* the log stays empty and the conversation identity stays absent, whatever
\* the requests started before the clear still deliver.
C36_SessionStaysReset ==
    [][ ( /\ clears >= 1
          /\ clearPc = "idle"
          /\ clearPc' = "idle"
          /\ messages = <<>>
          /\ conversationId = Null
          /\ ~Starts )
        => ( /\ messages' = <<>>
             /\ conversationId' = Null ) ]_vars

\* C37: a request that ends has handled a final event, which appended its
\* assistant message, or leaves the error set.
C37_VisibleOutcome ==
    [][ \A r \in Requests :
          Ends(r) => (reqs'[r].sawFinal \/ error' # Null) ]_vars

(***************************************************************************)
(* Properties of the transport driver, continued.                          *)
(***************************************************************************)
\* the lines of the body that end with a delimiter
TerminatedLines == CompleteLines(SplitLines(Stream))

\* the errors sendMessageStream throws
DriverErrors ==
    {"Failed to fetch", "No response body", "network error"}
    \cup {HttpErrorMessage(status) : status \in {404, 500}}

\* C38: when the body has ended, the callback got one event for every line
\* that ends with a delimiter, starts with the marker and parses, and nothing
\* else: what follows the last delimiter - a complete record included - was
\* dropped, and the driver returned; it throws for nothing but the response
\* and the connection.
C38_TrailingRecordDiscarded ==
    /\ streamPc = "returned"
       => /\ Len(delivered)
               = Cardinality({i \in 1..Len(TerminatedLines) :
                                /\ StartsWith(TerminatedLines[i], Marker)
                                /\ JsonParse(Slice(TerminatedLines[i], 6)).ok})
          /\ buffer = SplitLines(Stream)[Len(SplitLines(Stream))]
          /\ (records # <<>> /\ records[Len(records)] = UnterminatedRecord)
             => delivered
                  = OneChunkEvents(Flatten(SubSeq(records, 1, Len(records) - 1)))
    /\ streamPc = "threw" => streamResult \in DriverErrors

\* a well-formed record, then a complete record without its delimiter
C38_Witness ==
    /\ streamPc = "returned"
    /\ records = <<GoodRecord("1"), UnterminatedRecord>>
    /\ delivered = <<"1">>
    /\ buffer = UnterminatedRecord

\* C39: a callback that throws does not make the driver throw, and the
\* events of the lines that follow are still delivered, in their order: at
\* the end the callback got every event of the body.
C39_CallbackErrorAbsorbed ==
    /\ (streamPc = "threw" /\ handlerThrew # {}) => streamResult = "network error"
    /\ handlerThrew # {} => IsPrefix(delivered, OneChunkEvents(Stream))
    /\ (streamPc = "returned" /\ handlerThrew # {})
       => delivered = OneChunkEvents(Stream)

\* the callback threw on the first of three events
C39_Witness ==
    /\ streamPc = "returned"
    /\ handlerThrew = {1}
    /\ delivered = <<"1", "2", "1">>

(***************************************************************************)
(* Properties of concurrent deck changes.                                  *)
(***************************************************************************)
\* capture c ends in this step by adding its slide
Adds(c) ==
    /\ captures[c].pc = "capturing"
    /\ captures'[c].pc = "done"
    /\ captures'[c].ending = "added"

\* C35: the step that completes an "Add to Presentation" action adds one
\* slide to the deck that is current then and keeps the slides of that deck;
\* without a current deck it makes a deck of one slide.
C35_NoDeckUpdateLost ==
    [][ \A c \in 1..Len(captures) :
          Adds(c)
          => IF HasDeck(currentPresentation)
             THEN /\ Len(currentPresentation'.slides) = Len(Slides) + 1
                  /\ SubSeq(currentPresentation'.slides, 1, Len(Slides)) = Slides
             ELSE Len(currentPresentation'.slides) = 1 ]_vars

\* the ids of the slides, in their sequence
IdSeq(slides) == [i \in 1..Len(slides) |-> slides[i].id]

\* C40: the slide list an export hands to generatePptx has the ids of the
\* deck at the start of the export, in its sequence, and no step of an export
\* changes the current presentation.
C40_ExportWorksOnStartDeck ==
    [][ /\ \A e \in 1..Len(exports') :
              exports'[e].posted # <<>>
              => IdSeq(exports'[e].posted) = IdSeq(exports'[e].deck.slides)
        /\ exports' # exports => currentPresentation' = currentPresentation ]_vars

\* the deck was changed between the start of the export and its POST, and the
\* file was saved
C40_Witness ==
    \E e \in Exports :
        /\ exports[e].pc = "done"
        /\ exports[e].ending = "saved"
        /\ exports[e].mounted
        /\ HasDeck(exports[e].deckAtPost)
        /\ IdSeq(exports[e].deckAtPost.slides) # IdSeq(exports[e].deck.slides)
        /\ IdSeq(exports[e].posted) = IdSeq(exports[e].deck.slides)

====
